---- MODULE Spec2Model ----
(***************************************************************************)
(* Model of flaskapp.py: the loan approval rules (evaluate_application),   *)
(* the explanation text handling (generate_explanation), the orchestration *)
(* (process_application) and the /process-entry endpoint (process_entry).  *)
(*                                                                         *)
(* Python dicts are functions from key strings to values; a key that is    *)
(* absent is simply not in the DOMAIN.  Texts are sequences of one-letter  *)
(* strings.  Numeric inputs are integers, so the float comparisons of the  *)
(* source (x / y <= 0.43, x <= 0.6 * (12 * y)) are exact and are written   *)
(* cross-multiplied.  An exception is a value: an operation returns which  *)
(* exception it raised ("none" when it returned normally).                 *)
(***************************************************************************)
EXTENDS Integers, Sequences, FiniteSets, TLC

VARIABLES
    pc,                  \* "idle" | "calling" (inside client.completions.create) | "responded";
                         \* "evaluated" / "explained" when a single method is exercised
    body,                \* request.json of the request being handled
    now,                 \* datetime.now().year seen by the request
    raised,              \* exception raised while handling the request ("none" if none)
    decision,            \* local `decision` of process_application ("None" before it is set)
    criteria_evaluation, \* local `criteria_evaluation`: ordered <<label, value>> pairs
    rules_passed,        \* local `rules_passed` of the last evaluate_application call
    calls,               \* prompts handed to client.completions.create by this request
    service,             \* what the external call produced: <<>> or <<outcome>>
    explanation,         \* local `explanation` of process_application (<<>> before it is set)
    response,            \* what process_entry answered: <<>> or <<[status, error, result]>>
    history              \* the requests answered so far: input and answer of each

vars == <<pc, body, now, raised, decision, criteria_evaluation, rules_passed,
          calls, service, explanation, response, history>>

----------------------------------------------------------------------------
(* Bounds of the model *)

MaxRequests == 2
MaxTextLen == 7

----------------------------------------------------------------------------
(* dict helpers *)

Get(d, key, default) == IF key \in DOMAIN d THEN d[key] ELSE default

Min(a, b) == IF a <= b THEN a ELSE b

----------------------------------------------------------------------------
(* evaluate_application *)

extract_from_files(json_data) ==
    [gross_income |-> Get(json_data, "Monthly Gross Income", 0),
     credit_score |-> Get(json_data, "Credit Score", 0)]

PreferredSectors == {"Government Jobs", "Healthcare", "IT", "Finance"}

AcceptedResidency == {"Permanent Resident", "Citizen"}

DtiOk_strict(debt, gross_income) == debt * 100 < 43 * gross_income

\* dti = debt / gross_income; dti <= 0.43        (gross_income > 0 here)
DtiOk(debt, gross_income) == debt * 100 <= 43 * gross_income

\* amount <= 0.6 * (12 * gross_income)
LoanAmountOk(amount, gross_income) == amount * 10 <= 6 * (12 * gross_income)

CreditScoreOk(credit_score) == credit_score >= 670

ExistingLoansOk(n) == n < 5

JobDurationOk(years) == years >= 2

\* datetime.strptime(text, '%d/%m/%Y'): the text is day, month, year
strptime(date) == [day |-> date[1], month |-> date[2], year |-> date[3]]

Age(date, current_year) == current_year - strptime(date).year

AgeOk(age) == 18 <= age /\ age <= 70

\* the age entry is written after the residency entry
criteria_of_reordered(application, gross_income, credit_score, current_year) ==
    << <<"Debt-to-Income Ratio <= 0.43",
         DtiOk(application["Total Monthly Debt Obligations"], gross_income)>>,
       <<"Credit Score >= 670", CreditScoreOk(credit_score)>>,
       <<"Sector of Employment in Preferred List",
         application["Sector of Employment"] \in PreferredSectors>>,
       <<"Number of Existing Loans < 5",
         ExistingLoansOk(application["Number of Existing Loans"])>>,
       <<"Loan Amount <= 60% of Annual Income",
         LoanAmountOk(application["Desired Loan Amount"], gross_income)>>,
       <<"Duration at Current Job >= 2 Years",
         JobDurationOk(application["Duration at Current Job"])>>,
       <<"No History of Bankruptcy", application["History of Bankruptcy"] = "No">>,
       <<"Residency Status as Permanent Resident or Citizen",
         application["Residency Status"] \in AcceptedResidency>>,
       <<"Age Between 18 and 70", AgeOk(Age(application["Date of Birth"], current_year))>> >>

criteria_of(application, gross_income, credit_score, current_year) ==
    << <<"Debt-to-Income Ratio <= 0.43",
         DtiOk(application["Total Monthly Debt Obligations"], gross_income)>>,
       <<"Credit Score >= 670", CreditScoreOk(credit_score)>>,
       <<"Sector of Employment in Preferred List",
         application["Sector of Employment"] \in PreferredSectors>>,
       <<"Number of Existing Loans < 5",
         ExistingLoansOk(application["Number of Existing Loans"])>>,
       <<"Loan Amount <= 60% of Annual Income",
         LoanAmountOk(application["Desired Loan Amount"], gross_income)>>,
       <<"Duration at Current Job >= 2 Years",
         JobDurationOk(application["Duration at Current Job"])>>,
       <<"No History of Bankruptcy", application["History of Bankruptcy"] = "No">>,
       <<"Age Between 18 and 70", AgeOk(Age(application["Date of Birth"], current_year))>>,
       <<"Residency Status as Permanent Resident or Citizen",
         application["Residency Status"] \in AcceptedResidency>> >>

RECURSIVE CountFrom(_, _)
\* for key, value in criteria_evaluation.items(): if value: rules_passed += 1
CountFrom(start, items) ==
    IF items = <<>> THEN start
    ELSE CountFrom(IF Head(items)[2] THEN start + 1 ELSE start, Tail(items))

\* a counter that is not reset per call: it starts from what the last call left
count_rules_passed_stale(items) == CountFrom(rules_passed, items)

\* rules_passed = 0, then the counting loop
count_rules_passed(items) == CountFrom(0, items)

ApprovalThreshold == 8

decide_at_9(n) == IF n >= 9 THEN "Approved" ELSE "Declined"

\* decision = 'Approved' if rules_passed >= 8 else 'Declined'
decide(n) == IF n >= ApprovalThreshold THEN "Approved" ELSE "Declined"

\* the division by gross_income: raises when the divisor is 0
division_raises_never(gross_income) == FALSE

division_raises(gross_income) == gross_income = 0

Evaluated(items) ==
    [raised |-> "none",
     rules_passed |-> count_rules_passed(items),
     decision |-> decide(count_rules_passed(items)),
     criteria_evaluation |-> items]

evaluate_application(application, json_data, current_year) ==
    LET ex == extract_from_files(json_data) IN
    IF division_raises(ex.gross_income)
    THEN [raised |-> "ZeroDivisionError",
          rules_passed |-> rules_passed,
          decision |-> "None",
          criteria_evaluation |-> <<>>]
    ELSE Evaluated(criteria_of(application, ex.gross_income, ex.credit_score,
                               current_year))

----------------------------------------------------------------------------
(* generate_explanation *)

\* the lines "- <criterion>: Met" / "- <criterion>: Not Met" of the prompt
criteria_details(items) ==
    [i \in 1..Len(items) |-> <<items[i][1], IF items[i][2] THEN "Met" ELSE "Not Met">>]

\* the arguments of client.completions.create
prompt_of(application, d, items) ==
    [model |-> "gpt-3.5-turbo-instruct",
     max_tokens |-> 150,
     decision |-> d,
     application |-> application,
     criteria_details |-> criteria_details(items)]

\* the whitespace str.strip() removes
IsSpace(c) == c \in {" ", "\n", "\t"}

RECURSIVE lstrip(_)
lstrip(s) == IF s # <<>> /\ IsSpace(Head(s)) THEN lstrip(Tail(s)) ELSE s

RECURSIVE rstrip(_)
rstrip(s) ==
    IF s # <<>> /\ IsSpace(s[Len(s)]) THEN rstrip(SubSeq(s, 1, Len(s) - 1)) ELSE s

\* str.strip()
strip(s) == rstrip(lstrip(s))

\* first index at which ". " starts in s, 0 if there is none
FindSep(s) ==
    LET hits == {i \in 1..(Len(s) - 1) : s[i] = "." /\ s[i + 1] = " "}
    IN IF hits = {} THEN 0 ELSE CHOOSE i \in hits : \A j \in hits : i <= j

RECURSIVE split(_)
\* explanation.split('. ')
split(s) ==
    LET i == FindSep(s) IN
    IF i = 0 THEN <<s>>
    ELSE <<SubSeq(s, 1, i - 1)>> \o split(SubSeq(s, i + 2, Len(s)))

RECURSIVE join(_)
\* '. '.join(fragments)
join(fragments) ==
    IF fragments = <<>> THEN <<>>
    ELSE IF Len(fragments) = 1 THEN fragments[1]
    ELSE fragments[1] \o <<".", " ">> \o join(Tail(fragments))

\* explanation_sentences[:3]
first_three(fragments) == SubSeq(fragments, 1, Min(3, Len(fragments)))

\* '. '.join(explanation_sentences[:3]) + '.'
concise_explanation(text) == join(first_three(split(strip(text)))) \o <<".">>

Fallback ==
    <<"E", "x", "p", "l", "a", "n", "a", "t", "i", "o", "n", " ",
      "n", "o", "t", " ", "a", "v", "a", "i", "l", "a", "b", "l", "e">>

\* the except clause lets the exception out instead of returning the fallback
explanation_result_reraising(outcome) ==
    IF outcome.raises = "none"
    THEN [raised |-> "none", text |-> concise_explanation(outcome.text)]
    ELSE [raised |-> outcome.raises, text |-> <<>>]

\* the try / except of generate_explanation, given what the call produced
explanation_result(outcome) ==
    IF outcome.raises = "none"
    THEN [raised |-> "none", text |-> concise_explanation(outcome.text)]
    ELSE [raised |-> "none", text |-> Fallback]

----------------------------------------------------------------------------
(* process_application and process_entry *)

\* evaluate_application raised at line 107: line 108 is not reached
explanation_requested_always(ev) == TRUE

explanation_requested(ev) == ev.raised = "none"

\* {'application_id': ..., 'result': decision, 'explanation': explanation}
processed_result(application, d, text) ==
    [application_id |-> application["_id"], result |-> d, explanation |-> text]

\* str(e) of the exceptions the model raises
Message(exception) ==
    CASE exception = "ZeroDivisionError" -> "division by zero"
      [] exception = "KeyError" -> "'response'"
      [] OTHER -> exception

\* a 200 answer although processing raised
error_response_as_ok(exception) ==
    [status |-> 200, error |-> Message(exception), result |-> <<>>]

\* return jsonify(error=str(e)), 500
error_response(exception) ==
    [status |-> 500, error |-> Message(exception), result |-> <<>>]

\* return jsonify(result=processed_data), 200
ok_response(processed_data) ==
    [status |-> 200, error |-> "", result |-> <<processed_data>>]

Answered(b, y, outcomes, r) ==
    [body |-> b, now |-> y, service |-> outcomes, response |-> r]

----------------------------------------------------------------------------
(* Inputs *)

Application(id, debt, sector, loans, amount, duration, bankruptcy, birth, residency) ==
    ("_id" :> id) @@
    ("Total Monthly Debt Obligations" :> debt) @@
    ("Sector of Employment" :> sector) @@
    ("Number of Existing Loans" :> loans) @@
    ("Desired Loan Amount" :> amount) @@
    ("Duration at Current Job" :> duration) @@
    ("History of Bankruptcy" :> bankruptcy) @@
    ("Date of Birth" :> birth) @@
    ("Residency Status" :> residency)

\* the supporting-document fields: each is a sequence, empty when the key is absent
WithDocument(application, income, credit) ==
    application @@
    (IF income = <<>> THEN <<>> ELSE ("Monthly Gross Income" :> income[1])) @@
    (IF credit = <<>> THEN <<>> ELSE ("Credit Score" :> credit[1]))

Years == {2025, 2026}

\* every field below, at and above its boundary (for a gross income of 100)
AllApplications ==
    { WithDocument(Application("a", debt, sector, loans, amount, duration, bankruptcy,
                               birth, residency), income, credit) :
        debt \in {43, 44},
        income \in {<<>>, <<0>>, <<100>>},
        credit \in {<<>>, <<669>>, <<670>>},
        sector \in PreferredSectors \cup {"Retail", "it"},
        loans \in {4, 5},
        amount \in {720, 721},
        duration \in {1, 2},
        bankruptcy \in {"No", "Yes", "no"},
        birth \in {<<31, 12, 1954>>, <<1, 1, 1955>>, <<15, 6, 1990>>,
                   <<31, 12, 2007>>, <<1, 1, 2008>>},
        residency \in AcceptedResidency \cup {"Visitor"} }

Good == Application("a1", 30, "IT", 2, 480, 3, "No", <<15, 6, 1990>>, "Citizen")

\* the applications the endpoint is driven with
Applications ==
    { WithDocument(Good, <<100>>, <<700>>),                              \* 9 of 9
      WithDocument(Good, <<100>>, <<>>),                                 \* 8 of 9
      WithDocument([Good EXCEPT !["Sector of Employment"] = "Retail"],
                   <<100>>, <<600>>),                                    \* 7 of 9
      WithDocument([Good EXCEPT !["Date of Birth"] = <<1, 1, 1955>>],
                   <<100>>, <<600>>),                                    \* 8 or 7 of 9
      WithDocument(Good, <<0>>, <<700>>),
      WithDocument(Good, <<>>, <<700>>) }

\* request.json: with the 'response' key, or without it
Bodies == { ("response" :> a) : a \in Applications } \cup { ("other" :> "x") }

Alphabet == {"a", ".", " "}

RECURSIVE TextsOfLength(_)
TextsOfLength(n) ==
    IF n = 0 THEN {<<>>}
    ELSE {Append(t, c) : t \in TextsOfLength(n - 1), c \in Alphabet}

AllTexts == UNION {TextsOfLength(n) : n \in 0..MaxTextLen}

Failures == {"APIConnectionError", "APITimeoutError", "IndexError", "AttributeError"}

Returned(text) == [raises |-> "none", text |-> text]

Failed(exception) == [raises |-> exception, text |-> <<>>]

\* what the external call does in the endpoint runs
Outcomes ==
    {Returned(<<"a", ".", " ", "a", ".", " ", "a", ".", " ", "a", ".">>),
     Returned(<<" ", "a", ".", " ">>),
     Returned(<<"a">>)}
    \cup {Failed(e) : e \in Failures}

AllOutcomes == {Returned(t) : t \in AllTexts} \cup {Failed(e) : e \in Failures}

----------------------------------------------------------------------------
(* The endpoint: requests arrive one after the other *)

Init ==
    /\ pc = "idle"
    /\ body = <<>>
    /\ now = 0
    /\ raised = "none"
    /\ decision = "None"
    /\ criteria_evaluation = <<>>
    /\ rules_passed = 0
    /\ calls = <<>>
    /\ service = <<>>
    /\ explanation = <<>>
    /\ response = <<>>
    /\ history = <<>>

\* process_entry answers 500 without having called the external service
Reject(b, y, exception) ==
    /\ pc' = "responded"
    /\ raised' = exception
    /\ decision' = "None"
    /\ criteria_evaluation' = <<>>
    /\ calls' = <<>>
    /\ response' = <<error_response(exception)>>
    /\ history' = Append(history, Answered(b, y, <<>>, error_response(exception)))

\* process_entry up to the external call: request.json['response'],
\* process_application, evaluate_application, the prompt of generate_explanation
ProcessEntry ==
    /\ pc \in {"idle", "responded"}
    /\ Len(history) < MaxRequests
    /\ \E b \in Bodies, y \in Years :
        /\ body' = b
        /\ now' = y
        /\ service' = <<>>
        /\ explanation' = <<>>
        /\ IF "response" \notin DOMAIN b
           THEN Reject(b, y, "KeyError") /\ UNCHANGED rules_passed
           ELSE LET entry_data == b["response"]
                    ev == evaluate_application(entry_data, entry_data, y)
                IN /\ rules_passed' = ev.rules_passed
                   /\ IF explanation_requested(ev)
                      THEN /\ pc' = "calling"
                           /\ raised' = ev.raised
                           /\ decision' = ev.decision
                           /\ criteria_evaluation' = ev.criteria_evaluation
                           /\ calls' = <<prompt_of(entry_data, ev.decision,
                                                   ev.criteria_evaluation)>>
                           /\ response' = <<>>
                           /\ UNCHANGED history
                      ELSE Reject(b, y, ev.raised)

\* the external call ends (a text, or an exception of the client); the rest of
\* generate_explanation, process_application and process_entry
ServiceResponds ==
    /\ pc = "calling"
    /\ \E outcome \in Outcomes :
        LET ex == explanation_result(outcome)
            answer == IF ex.raised = "none"
                      THEN ok_response(processed_result(body["response"], decision,
                                                        ex.text))
                      ELSE error_response(ex.raised)
        IN /\ service' = <<outcome>>
           /\ explanation' = ex.text
           /\ response' = <<answer>>
           /\ history' = Append(history, Answered(body, now, <<outcome>>, answer))
    /\ pc' = "responded"
    /\ UNCHANGED <<body, now, raised, decision, criteria_evaluation, rules_passed, calls>>

Next == ProcessEntry \/ ServiceResponds

Spec == Init /\ [][Next]_vars

----------------------------------------------------------------------------
(* evaluate_application alone, on every application of AllApplications *)

InitEval ==
    /\ pc = "idle"
    /\ body \in { ("response" :> a) : a \in AllApplications }
    /\ now \in Years
    /\ raised = "none"
    /\ decision = "None"
    /\ criteria_evaluation = <<>>
    /\ rules_passed = 0
    /\ calls = <<>>
    /\ service = <<>>
    /\ explanation = <<>>
    /\ response = <<>>
    /\ history = <<>>

EvaluateApplication ==
    /\ pc = "idle"
    /\ LET ev == evaluate_application(body["response"], body["response"], now)
       IN /\ raised' = ev.raised
          /\ decision' = ev.decision
          /\ criteria_evaluation' = ev.criteria_evaluation
          /\ rules_passed' = ev.rules_passed
    /\ pc' = "evaluated"
    /\ UNCHANGED <<body, now, calls, service, explanation, response, history>>

NextEval == EvaluateApplication

SpecEval == InitEval /\ [][NextEval]_vars

----------------------------------------------------------------------------
(* generate_explanation alone, on every outcome of AllOutcomes *)

InitText ==
    /\ pc = "calling"
    /\ body = <<>>
    /\ now = 0
    /\ raised = "none"
    /\ decision = "None"
    /\ criteria_evaluation = <<>>
    /\ rules_passed = 0
    /\ calls = <<>>
    /\ service \in {<<o>> : o \in AllOutcomes}
    /\ explanation = <<>>
    /\ response = <<>>
    /\ history = <<>>

GenerateExplanation ==
    /\ pc = "calling"
    /\ explanation' = explanation_result(service[1]).text
    /\ raised' = explanation_result(service[1]).raised
    /\ pc' = "explained"
    /\ UNCHANGED <<body, now, decision, criteria_evaluation, rules_passed, calls,
                   service, response, history>>

NextText == GenerateExplanation

SpecText == InitText /\ [][NextText]_vars

----------------------------------------------------------------------------
(* Properties *)

entry == body["response"]

HasEntry == "response" \in DOMAIN body

Income == Get(entry, "Monthly Gross Income", 0)

TrueCount == Cardinality({i \in 1..Len(criteria_evaluation) : criteria_evaluation[i][2]})

\* the outcomes of the nine criteria, as a tuple of booleans
Outcomes9(items) == [i \in 1..Len(items) |-> items[i][2]]

EvaluatedVectors ==
    { Outcomes9(criteria_of(a, 100, Get(a, "Credit Score", 0), y)) :
        a \in {x \in AllApplications : Get(x, "Monthly Gross Income", 0) = 100},
        y \in Years }

\* C1: the decision of evaluate_application is Approved exactly when at least 8
\* of the nine criteria are true, and Declined otherwise, whichever criteria
\* they are.
C1_DecisionByCount ==
    (pc = "evaluated" /\ raised = "none") =>
        /\ decision \in {"Approved", "Declined"}
        /\ (decision = "Approved") <=> (TrueCount >= 8)
        /\ rules_passed = TrueCount

\* exactly 8 of 9 true is Approved, and all 512 assignments are evaluated
C1_Witness ==
    /\ pc = "evaluated"
    /\ TrueCount = 8
    /\ decision = "Approved"
    /\ Cardinality(EvaluatedVectors) = 512

\* C2: with a monthly gross income of 0, or none given, the evaluation raises
\* and returns no decision; the error reaches the caller of process_application,
\* no result is produced and the request never gets as far as the external call.
C2_ZeroIncomeRaises ==
    (HasEntry /\ Income = 0) =>
        /\ pc # "calling"
        /\ raised = "ZeroDivisionError"
        /\ decision = "None"
        /\ criteria_evaluation = <<>>
        /\ response # <<>>
        /\ response[1].result = <<>>
        /\ response[1].error = "division by zero"

C2_Witness ==
    /\ pc = "responded"
    /\ HasEntry
    /\ "Monthly Gross Income" \notin DOMAIN entry
    /\ raised = "ZeroDivisionError"

\* C3: when the external call fails, the explanation is exactly the fallback
\* text, nothing is raised, and the request is answered with a result that
\* carries the decision computed before the call.
C3_FallbackOnFailure ==
    (pc = "responded" /\ service # <<>> /\ service[1].raises # "none") =>
        /\ explanation = Fallback
        /\ raised = "none"
        /\ decision = calls[1].decision
        /\ response[1].result =
             <<[application_id |-> entry["_id"], result |-> decision,
                explanation |-> Fallback]>>

C3_Witness ==
    /\ pc = "responded"
    /\ service # <<>>
    /\ service[1].raises = "APITimeoutError"
    /\ response[1].result # <<>>
    /\ response[1].result[1].result = "Approved"

CriterionOrder ==
    <<"Debt-to-Income Ratio <= 0.43",
      "Credit Score >= 670",
      "Sector of Employment in Preferred List",
      "Number of Existing Loans < 5",
      "Loan Amount <= 60% of Annual Income",
      "Duration at Current Job >= 2 Years",
      "No History of Bankruptcy",
      "Age Between 18 and 70",
      "Residency Status as Permanent Resident or Citizen">>

\* C4: for an application with a monthly gross income above 0 the evaluation
\* returns exactly nine entries, in the fixed order of the criteria.
C4_NineInOrder ==
    (pc = "evaluated" /\ Income > 0) =>
        /\ raised = "none"
        /\ Len(criteria_evaluation) = 9
        /\ [i \in 1..Len(criteria_evaluation) |-> criteria_evaluation[i][1]]
             = CriterionOrder

C4_Witness ==
    /\ pc = "evaluated"
    /\ Income > 0
    /\ Len(criteria_evaluation) = 9
    /\ TrueCount = 0

EndsWithPeriod(s) == s # <<>> /\ s[Len(s)] = "."

\* C6: a returned text gives its first three ". "-separated fragments joined
\* with ". ", with a period appended only when the joined text does not
\* already end with one.
C6_PeriodOnlyIfMissing ==
    (pc = "explained" /\ service[1].raises = "none") =>
        LET joined == join(first_three(split(strip(service[1].text))))
        IN explanation = IF EndsWithPeriod(joined) THEN joined ELSE joined \o <<".">>

\* C7: two requests with the same body, the same current year and the same
\* outcome of the external call get the same answer.
C7_Idempotent ==
    \A i, j \in 1..Len(history) :
        (/\ history[i].body = history[j].body
         /\ history[i].now = history[j].now
         /\ history[i].service = history[j].service)
        => history[i].response = history[j].response

C7_Witness ==
    /\ Len(history) = 2
    /\ history[1].body = history[2].body
    /\ history[1].now = history[2].now
    /\ history[1].service = history[2].service
    /\ history[1].service # <<>>
    /\ history[2].response.status = 200

\* C9: every answer is either 200 with a result (processing returned) or 500
\* with an error message (processing raised); a request whose processing
\* raised is never answered 200, and every handled request is answered.
C9_TwoOutcomes ==
    /\ (pc = "responded") => Len(response) = 1
    /\ \A i \in 1..Len(response) :
        LET r == response[i] IN
        \/ /\ r.status = 200
           /\ Len(r.result) = 1
           /\ r.error = ""
           /\ raised = "none"
           /\ HasEntry /\ Income # 0
        \/ /\ r.status = 500
           /\ r.result = <<>>
           /\ raised # "none"
           /\ r.error = Message(raised)
           /\ (~HasEntry \/ Income = 0)

C9_Witness ==
    /\ Len(history) = 2
    /\ history[1].response.status = 200
    /\ history[2].response.status = 500
    /\ history[2].response.error = "'response'"

\* C10: within a request the external service is called at most once, only
\* after the evaluation returned a decision (the one the prompt carries), never
\* when the evaluation raised; the call is not repeated after a failure, and a
\* result is assembled only after the call ended.
C10_CallOrder ==
    /\ Len(calls) <= 1
    /\ Len(service) <= Len(calls)
    /\ (calls # <<>>) =>
          /\ raised = "none"
          /\ decision \in {"Approved", "Declined"}
          /\ Len(criteria_evaluation) = 9
          /\ calls[1].decision = decision
          /\ calls[1].criteria_details = criteria_details(criteria_evaluation)
    /\ (raised # "none") => (calls = <<>> /\ service = <<>>)
    /\ (pc = "calling") <=> (Len(calls) = 1 /\ service = <<>>)
    /\ (response # <<>> /\ response[1].status = 200) =>
          (Len(calls) = 1 /\ Len(service) = 1)

C10_Witness ==
    /\ pc = "responded"
    /\ Len(calls) = 1
    /\ service # <<>>
    /\ service[1].raises = "APIConnectionError"
    /\ explanation = Fallback

====
